---------------------------- MODULE Spec2Model ----------------------------
(***************************************************************************)
(* A model of circman (src/src/circman/__main__.py): the device locator    *)
(* find_device, the archive catalog find_archive_files, and the commands   *)
(* list, restore, deploy and sync with the option handling of              *)
(* DeviceCommand.                                                          *)
(*                                                                         *)
(* Byte strings are sequences of one-character strings, so that split(),   *)
(* splitlines(), endswith() and the lexicographic sort are computed as     *)
(* Python computes them.  An Optional[str] is a sequence of zero (None) or *)
(* one string.                                                             *)
(***************************************************************************)
EXTENDS Integers, Sequences, FiniteSets

VARIABLES
    osName,        \* os.name seen by find_device
    available,     \* the mount commands that exist on the host
    mountTable,    \* the host's mount table: what a mount command lists
    found,         \* outcome of the last find_device() call
    archives,      \* BACKUP_DIR: archive file name -> archived device content
    deviceContent, \* content (= mtime) of the file on the device
    srcContent,    \* content (= mtime) of the file in the project directory "src"
    now,           \* the UTC clock, in seconds
    pc,            \* "idle", or the position inside a running deploy
    cmd,           \* the command of the current / last invocation
    deviceGiven,   \* whether -d was given on the command line
    device,        \* the value of the device option (None: no value)
    rank,          \* the value of restore's -a option
    calls,         \* the external calls of the invocation, in order
    log,           \* the messages logged / printed by the invocation
    exitCode,      \* the exit code of the invocation (NoExit while running)
    raised         \* the exception that ended the invocation, or "none"

envVars == <<osName, available, mountTable, found>>
worldVars == <<archives, deviceContent, srcContent, now>>
runVars == <<pc, cmd, deviceGiven, device, rank, calls, log, exitCode, raised>>
vars == <<osName, available, mountTable, found, archives, deviceContent,
          srcContent, now, pc, cmd, deviceGiven, device, rank, calls, log,
          exitCode, raised>>

(***************************************************************************)
(* Bounds of the model.                                                    *)
(***************************************************************************)
\* lines of a mount command's output
MaxLines == 2

\* archives already in BACKUP_DIR when the model starts (0..MaxPrior of them)
MaxPrior == 5

\* seconds the clock advances
MaxTicks == 1

\* restore's -a option ranges over -MaxRank..MaxRank
MaxRank == 3

\* the file's content is one of the versions 0..MaxVer (its mtime)
MaxVer == 1

(***************************************************************************)
(* Strings.                                                                *)
(***************************************************************************)
None == <<>>

Some(s) == <<s>>

SP == " "

NL == "\n"

Whitespace == {" ", "\t", "\n"}

TARGET == <<"C", "I", "R", "C", "U", "I", "T", "P", "Y">>

\* a variant of endswith: the suffix occurs anywhere in s
EndsWithAnywhere(s, suffix) ==
    \E i \in 1..Len(s) : i + Len(suffix) - 1 <= Len(s)
                         /\ SubSeq(s, i, i + Len(suffix) - 1) = suffix

\* bytes.endswith
EndsWith(s, suffix) ==
    /\ Len(s) >= Len(suffix)
    /\ SubSeq(s, Len(s) - Len(suffix) + 1, Len(s)) = suffix

\* bytes.split(): the maximal runs of non-whitespace bytes
RECURSIVE SplitAcc(_, _, _)
SplitAcc(s, cur, acc) ==
    IF s = <<>>
    THEN IF cur = <<>> THEN acc ELSE Append(acc, cur)
    ELSE IF Head(s) \in Whitespace
         THEN SplitAcc(Tail(s), <<>>, IF cur = <<>> THEN acc ELSE Append(acc, cur))
         ELSE SplitAcc(Tail(s), Append(cur, Head(s)), acc)

Split(s) == SplitAcc(s, <<>>, <<>>)

\* bytes.splitlines(): a line ends at each newline; no empty last line
RECURSIVE SplitLinesAcc(_, _, _)
SplitLinesAcc(s, cur, acc) ==
    IF s = <<>>
    THEN IF cur = <<>> THEN acc ELSE Append(acc, cur)
    ELSE IF Head(s) = NL
         THEN SplitLinesAcc(Tail(s), <<>>, Append(acc, cur))
         ELSE SplitLinesAcc(Tail(s), Append(cur, Head(s)), acc)

SplitLines(s) == SplitLinesAcc(s, <<>>, <<>>)

(***************************************************************************)
(* The host: os.name, the mount commands, and their output.                *)
(***************************************************************************)
OsNames == {"posix", "nt", "foo"}

MountCommands == <<"mount", "/sbin/mount">>

CommandSet == {MountCommands[i] : i \in 1..Len(MountCommands)}

Dev == <<"/", "d">>

Root == <<"/">>

MediaDir == <<"/", "m", "/">>

VolumesDir == <<"/", "V", "/">>

MountEntry(dev, mountPoint, rest) ==
    [dev |-> dev, mountPoint |-> mountPoint, rest |-> rest]

\* The entries of a mount table: a device, its mount point, its type and options.
MountEntries ==
    { MountEntry(Dev, Root, <<"t">>),
      MountEntry(Dev, MediaDir \o TARGET, <<"t">>),
      MountEntry(Dev, VolumesDir \o TARGET, <<"t">>),
      MountEntry(Dev, MediaDir \o TARGET \o <<"/", "x">>, <<"t">>),
      MountEntry(Dev, MediaDir \o SubSeq(TARGET, 1, 8), <<"t">>),
      MountEntry(TARGET, Root, <<"t">>),
      MountEntry(Dev, Root, TARGET) }

RECURSIVE Tables(_)
Tables(n) ==
    IF n = 0 THEN {<<>>}
    ELSE Tables(n - 1) \cup
         {Append(t, e) : t \in Tables(n - 1), e \in MountEntries}

MountTables == Tables(MaxLines)

\* The line mount prints for an entry: "<device> on <mount point> <type and options>".
MountLine(e) ==
    e.dev \o <<SP>> \o <<"o", "n">> \o <<SP>> \o e.mountPoint \o <<SP>> \o e.rest \o <<NL>>

\* check_output(mount_command): the bytes mount prints for the table
RECURSIVE MountOutput(_)
MountOutput(table) ==
    IF table = <<>> THEN <<>>
    ELSE MountLine(Head(table)) \o MountOutput(Tail(table))

(***************************************************************************)
(* find_device                                                             *)
(***************************************************************************)
\* [x.split()[2] for x in mount_output]; <<>> marks a line with no third field
MountedVolumes(output) ==
    LET lines == SplitLines(output)
    IN  [i \in 1..Len(lines) |->
            IF Len(Split(lines[i])) >= 3 THEN Some(Split(lines[i])[3]) ELSE None]

\* for volume in mounted_volumes: if volume.endswith(b"CIRCUITPY"): device_dir = volume
RECURSIVE ScanVolumes(_, _)
ScanVolumes(volumes, device_dir) ==
    IF volumes = <<>> THEN device_dir
    ELSE ScanVolumes(Tail(volumes),
                     IF EndsWith(Head(volumes)[1], TARGET)
                     THEN Some(Head(volumes)[1]) ELSE device_dir)

\* the loop over the mount commands, from the i-th command on
RECURSIVE MountLoop(_, _, _, _, _)
MountLoop(i, avail, output, device_dir, tried) ==
    IF i > Len(MountCommands)
    THEN [raised |-> "none", message |-> <<>>, value |-> device_dir, calls |-> tried]
    ELSE LET c == MountCommands[i]
         IN  IF c \notin avail
             THEN \* FileNotFoundError: continue
                  MountLoop(i + 1, avail, output, device_dir, Append(tried, c))
             ELSE LET volumes == MountedVolumes(output)
                  IN  IF \E k \in 1..Len(volumes) : volumes[k] = None
                      THEN [raised |-> "IndexError", message |-> <<>>,
                            value |-> None, calls |-> Append(tried, c)]
                      ELSE MountLoop(i + 1, avail, output,
                                     ScanVolumes(volumes, device_dir),
                                     Append(tried, c))

\* a variant of find_device that scans the mount table on every platform
find_device_any_os(os, avail, table) ==
    MountLoop(1, avail, MountOutput(table), None, <<>>)

find_device(os, avail, table) ==
    IF os = "posix"
    THEN MountLoop(1, avail, MountOutput(table), None, <<>>)
    ELSE [raised |-> "NotImplementedError",
          message |-> <<"OS '", os, "' not supported.">>,
          value |-> None, calls |-> <<>>]

\* the outcomes find_device() can have on some host
FindDeviceOutcomes ==
    {find_device(os, avail, table) :
        os \in OsNames, avail \in SUBSET CommandSet, table \in MountTables}

(***************************************************************************)
(* The archive catalog.  An archive is named archive-<YYYYMMDD_HHMMSS>     *)
(* and ".tar.bz2"; the model's clock stays within one minute, so a name    *)
(* differs from another in the two digits of %S only, and the name is      *)
(* modelled by them.                                                       *)
(***************************************************************************)
\* the first second of the model's clock
StartClock == 9

\* f"{now:%S}": two digits, zero-padded
strftime(t) == <<(t \div 10) % 10, t % 10>>

ArchiveName(t) == strftime(t)

\* str(a) < str(b)
RECURSIVE LexLess(_, _)
LexLess(a, b) ==
    IF a = <<>> THEN b # <<>>
    ELSE IF b = <<>> THEN FALSE
    ELSE IF Head(a) # Head(b) THEN Head(a) < Head(b)
    ELSE LexLess(Tail(a), Tail(b))

\* sorted(names, key=str)
RECURSIVE Sorted(_)
Sorted(S) ==
    IF S = {} THEN <<>>
    ELSE LET m == CHOOSE x \in S : \A y \in S \ {x} : LexLess(x, y)
         IN  <<m>> \o Sorted(S \ {m})

\* sorted(BACKUP_DIR.glob("*.tar.bz2"), key=lambda x: str(x))
find_archive_files(dir) == Sorted(DOMAIN dir)

\* seq[i] of Python, i negative counting from the end; None: IndexError
PyIndex(seq, i) ==
    LET n == Len(seq)
        j == IF i < 0 THEN i + n ELSE i
    IN  IF 0 <= j /\ j < n THEN Some(seq[j + 1]) ELSE None

\* a variant of the slice: seq[:k], the first k
PyFirst(seq, k) ==
    SubSeq(seq, 1, IF Len(seq) < k THEN Len(seq) ELSE k)

\* seq[-k:] of Python, k > 0
PyLast(seq, k) ==
    LET n == Len(seq)
        start == IF n - k < 0 THEN 0 ELSE n - k
    IN  SubSeq(seq, start + 1, n)

(***************************************************************************)
(* The state of a command invocation.                                      *)
(***************************************************************************)
NoExit == 0 - 1

Versions == 0..MaxVer

Times == StartClock..(StartClock + MaxTicks)

Ranks == (0 - MaxRank)..MaxRank

\* the directory given with -d in the tests, and a path that does not exist
DestDir == <<"d", "e", "s", "t">>

MissingDir == <<"n", "o">>

SrcDir == <<"s", "r", "c">>

\* click.Path(exists=True, file_okay=False, writable=True)
PathExists(p) == p # MissingDir

NotCalled == [raised |-> "none", message |-> <<>>, value |-> None, calls |-> <<>>]

\* a BACKUP_DIR holding k archives written in the k seconds before StartClock
PriorCatalog(k) ==
    [name \in {ArchiveName(StartClock - i) : i \in 1..k} |-> 0]

RunInit ==
    /\ pc = "idle"
    /\ cmd = "none"
    /\ deviceGiven = FALSE
    /\ device = None
    /\ rank = 1
    /\ calls = <<>>
    /\ log = <<>>
    /\ exitCode = NoExit
    /\ raised = "none"

RunReset ==
    /\ pc' = "idle"
    /\ cmd' = "none"
    /\ deviceGiven' = FALSE
    /\ device' = None
    /\ rank' = 1
    /\ calls' = <<>>
    /\ log' = <<>>
    /\ exitCode' = NoExit
    /\ raised' = "none"

\* Spec does not follow the host: a command invoked without -d gets, in found,
\* any outcome find_device has on some host (FindDeviceOutcomes), and osName,
\* available and mountTable keep their initial values.  SpecFind follows the host.
Init ==
    /\ osName = "posix"
    /\ available = {}
    /\ mountTable = <<>>
    /\ found = NotCalled
    /\ \E k \in 0..MaxPrior : archives = PriorCatalog(k)
    /\ deviceContent = 0
    /\ srcContent = 0
    /\ now = StartClock
    /\ RunInit

\* No invocation is running and none has left its results.
Fresh == pc = "idle" /\ cmd = "none"

(***************************************************************************)
(* The world outside the program: time passes, the user edits src.         *)
(***************************************************************************)
Tick ==
    /\ pc = "idle"
    /\ cmd = "none"
    /\ now < StartClock + MaxTicks
    /\ now' = now + 1
    /\ UNCHANGED <<envVars, archives, deviceContent, srcContent, runVars>>

EditSource ==
    /\ pc = "idle"
    /\ cmd = "none"
    /\ srcContent < MaxVer
    /\ srcContent' = srcContent + 1
    /\ UNCHANGED <<envVars, archives, deviceContent, now, runVars>>

\* The process of the invocation has ended; the next invocation is a new process.
Exit ==
    /\ pc = "idle"
    /\ cmd # "none"
    /\ RunReset
    /\ found' = NotCalled
    /\ UNCHANGED <<osName, available, mountTable, worldVars>>

(***************************************************************************)
(* DeviceCommand: the -d option, required, of type click.Path, with        *)
(* find_device() as its default.  The outcome of its processing:           *)
(* the option's value, or the error that ends the invocation.              *)
(***************************************************************************)
\* a variant of the option that is not required: a default of None is passed on
DeviceOptionNotRequired(given, value, outcome) ==
    IF given
    THEN IF PathExists(value)
         THEN [error |-> "none", device |-> Some(value), exit |-> NoExit]
         ELSE [error |-> "Error: Invalid value for '-d' / '--device'.",
               device |-> None, exit |-> 2]
    ELSE IF outcome.raised # "none"
         THEN [error |-> outcome.raised, device |-> None, exit |-> 1]
         ELSE [error |-> "none", device |-> outcome.value, exit |-> NoExit]

DeviceOption(given, value, outcome) ==
    IF given
    THEN IF PathExists(value)
         THEN [error |-> "none", device |-> Some(value), exit |-> NoExit]
         ELSE [error |-> "Error: Invalid value for '-d' / '--device'.",
               device |-> None, exit |-> 2]
    ELSE IF outcome.raised # "none"
         THEN [error |-> outcome.raised, device |-> None, exit |-> 1]
         ELSE IF outcome.value = None
              THEN [error |-> "Error: Missing option '-d' / '--device'.",
                    device |-> None, exit |-> 2]
              ELSE [error |-> "none", device |-> outcome.value, exit |-> NoExit]

\* the ways a device command is invoked: with -d <path>, or without -d on some host
DeviceArgs ==
    {[given |-> TRUE, value |-> v, outcome |-> NotCalled] : v \in {DestDir, MissingDir}}
    \cup {[given |-> FALSE, value |-> None, outcome |-> o] : o \in FindDeviceOutcomes}

\* if not device: sys.exit(2)
require_device(dev) == dev # None /\ dev # Some(<<>>)

\* The invocation ends while its options are processed.
OptionError(c, given, outcome, opt) ==
    /\ pc' = "idle"
    /\ cmd' = c
    /\ deviceGiven' = given
    /\ found' = IF given THEN NotCalled ELSE outcome
    /\ device' = None
    /\ calls' = <<>>
    /\ log' = <<<<opt.error>>>>
    /\ exitCode' = opt.exit
    /\ raised' = IF opt.exit = 1 THEN opt.error ELSE "none"
    /\ UNCHANGED <<osName, available, mountTable, worldVars>>

(***************************************************************************)
(* list                                                                    *)
(***************************************************************************)
recent_back_limit == 5

ListLines(archive_files) ==
    LET recent_files == PyLast(archive_files, recent_back_limit)
        recent_files_count == Len(recent_files)
    IN  <<<<"Backups:">>>> \o
        [i \in 1..recent_files_count |->
            <<"entry", recent_files_count - (i - 1), recent_files[i]>>]

List ==
    /\ Fresh
    /\ pc' = "idle"
    /\ cmd' = "list"
    /\ deviceGiven' = FALSE
    /\ device' = None
    /\ rank' = 1
    /\ calls' = <<<<"find_archive_files">>>>
    /\ log' = ListLines(find_archive_files(archives))
    /\ exitCode' = 0
    /\ raised' = "none"
    /\ found' = NotCalled
    /\ UNCHANGED <<osName, available, mountTable, worldVars>>

(***************************************************************************)
(* restore                                                                 *)
(***************************************************************************)
\* a variant of the selection that counts the rank from the oldest archive
SelectArchiveFromOldest(archive_files, archive) == PyIndex(archive_files, archive - 1)

\* archive_files[-archive]
SelectArchive(archive_files, archive) == PyIndex(archive_files, 0 - archive)

\* a variant of the test that never finds the catalog empty
NoBackupsUnchecked(archive_files) == FALSE

\* if not archive_files
NoBackups(archive_files) == archive_files = <<>>

RestoreBody(dev, archive) ==
    LET archive_files == find_archive_files(archives)
        archive_file == SelectArchive(archive_files, archive)
    IN  IF ~require_device(dev)
        THEN /\ calls' = <<>>
             /\ log' = <<>>
             /\ exitCode' = 2
             /\ UNCHANGED deviceContent
        ELSE IF NoBackups(archive_files)
        THEN /\ calls' = <<<<"find_archive_files">>>>
             /\ log' = <<<<"No backup found to restore.">>>>
             /\ exitCode' = 1
             /\ UNCHANGED deviceContent
        ELSE IF archive_file = None
        THEN /\ calls' = <<<<"find_archive_files">>>>
             /\ log' = <<<<"Backup not found.">>>>
             /\ exitCode' = 1
             /\ UNCHANGED deviceContent
        ELSE /\ calls' = <<<<"find_archive_files">>,
                           <<"unpack_archive", archive_file[1], dev[1]>>>>
             /\ log' = <<<<"Restoring", archive_file[1]>>>>
             /\ exitCode' = 0
             /\ deviceContent' = archives[archive_file[1]]

Restore ==
    /\ Fresh
    /\ \E arg \in DeviceArgs, archive \in Ranks :
          LET given == arg.given
              outcome == arg.outcome
              opt == DeviceOption(given, arg.value, outcome)
          IN  /\ rank' = archive
              /\ IF opt.error # "none"
                 THEN OptionError("restore", given, outcome, opt)
                 ELSE /\ pc' = "idle"
                      /\ cmd' = "restore"
                      /\ deviceGiven' = given
                      /\ found' = IF given THEN NotCalled ELSE outcome
                      /\ device' = opt.device
                      /\ raised' = "none"
                      /\ RestoreBody(opt.device, archive)
                      /\ UNCHANGED <<osName, available, mountTable,
                                     archives, srcContent, now>>

(***************************************************************************)
(* backup and deploy                                                       *)
(***************************************************************************)
\* shutil.make_archive(str(BACKUP_DIR / f"archive-{now:...}"), "bztar", device, "."):
\* the file of that name is created, or truncated and written again
backup(dir, t, content) ==
    [name \in DOMAIN dir \cup {ArchiveName(t)} |->
        IF name = ArchiveName(t) THEN content ELSE dir[name]]

\* copy_tree(source, device, update=1): a file is copied when the destination
\* lacks it or the source is newer
copy_tree_update(source, dest) == IF source > dest THEN source ELSE dest

\* copy_tree(device, dest): every file is copied
copy_tree(source, dest) == source

DeployStart ==
    /\ Fresh
    /\ rank' = 1
    /\ \E arg \in DeviceArgs :
          LET given == arg.given
              outcome == arg.outcome
              opt == DeviceOption(given, arg.value, outcome)
          IN  IF opt.error # "none"
              THEN OptionError("deploy", given, outcome, opt)
              ELSE /\ cmd' = "deploy"
                   /\ deviceGiven' = given
                   /\ found' = IF given THEN NotCalled ELSE outcome
                   /\ device' = opt.device
                   /\ raised' = "none"
                   /\ calls' = <<>>
                   /\ log' = <<>>
                   /\ IF require_device(opt.device)
                      THEN pc' = "backup" /\ exitCode' = NoExit
                      ELSE pc' = "idle" /\ exitCode' = 2
                   /\ UNCHANGED <<osName, available, mountTable, worldVars>>

\* a variant of deploy that goes on to the copy without the backup
DeployBackupSkipped ==
    /\ pc = "backup"
    /\ pc' = "copy"
    /\ UNCHANGED <<envVars, worldVars, cmd, deviceGiven, device, rank, calls,
                   log, exitCode, raised>>

DeployBackup ==
    /\ pc = "backup"
    /\ archives' = backup(archives, now, deviceContent)
    /\ calls' = Append(calls, <<"make_archive", ArchiveName(now), device[1]>>)
    /\ log' = Append(log, <<"Archiving to", ArchiveName(now)>>)
    /\ pc' = "copy"
    /\ UNCHANGED <<envVars, deviceContent, srcContent, now, cmd, deviceGiven,
                   device, rank, exitCode, raised>>

\* make_archive raises (BACKUP_DIR not writable, device not readable): not caught
DeployBackupFails ==
    /\ pc = "backup"
    /\ calls' = Append(calls, <<"make_archive", ArchiveName(now), device[1]>>)
    /\ log' = Append(log, <<"Archiving to", ArchiveName(now)>>)
    /\ raised' = "OSError"
    /\ exitCode' = 1
    /\ pc' = "idle"
    /\ UNCHANGED <<envVars, worldVars, cmd, deviceGiven, device, rank>>

DeployCopy ==
    /\ pc = "copy"
    /\ deviceContent' = copy_tree_update(srcContent, deviceContent)
    /\ calls' = Append(calls, <<"copy_tree", SrcDir, device[1], "update=1">>)
    /\ log' = Append(log, <<"Deploying", SrcDir, device[1]>>)
    /\ exitCode' = 0
    /\ pc' = "idle"
    /\ UNCHANGED <<envVars, archives, srcContent, now, cmd, deviceGiven,
                   device, rank, raised>>

\* copy_tree raises: not caught
DeployCopyFails ==
    /\ pc = "copy"
    /\ calls' = Append(calls, <<"copy_tree", SrcDir, device[1], "update=1">>)
    /\ log' = Append(log, <<"Deploying", SrcDir, device[1]>>)
    /\ raised' = "DistutilsFileError"
    /\ exitCode' = 1
    /\ pc' = "idle"
    /\ UNCHANGED <<envVars, worldVars, cmd, deviceGiven, device, rank>>

(***************************************************************************)
(* sync                                                                    *)
(***************************************************************************)
Sync ==
    /\ Fresh
    /\ rank' = 1
    /\ \E arg \in DeviceArgs :
          LET given == arg.given
              outcome == arg.outcome
              opt == DeviceOption(given, arg.value, outcome)
          IN  IF opt.error # "none"
              THEN OptionError("sync", given, outcome, opt)
              ELSE /\ cmd' = "sync"
                   /\ deviceGiven' = given
                   /\ found' = IF given THEN NotCalled ELSE outcome
                   /\ device' = opt.device
                   /\ raised' = "none"
                   /\ pc' = "idle"
                   /\ IF require_device(opt.device)
                      THEN /\ calls' = <<<<"copy_tree", opt.device[1], SrcDir, "update=0">>>>
                           /\ log' = <<<<"Copying", opt.device[1], SrcDir>>>>
                           /\ srcContent' = copy_tree(deviceContent, srcContent)
                           /\ exitCode' = 0
                      ELSE /\ calls' = <<>>
                           /\ log' = <<>>
                           /\ exitCode' = 2
                           /\ UNCHANGED srcContent
                   /\ UNCHANGED <<osName, available, mountTable, archives,
                                  deviceContent, now>>

Next ==
    \/ Tick
    \/ EditSource
    \/ Exit
    \/ List
    \/ Restore
    \/ DeployStart
    \/ DeployBackup
    \/ DeployBackupFails
    \/ DeployCopy
    \/ DeployCopyFails
    \/ Sync

Spec == Init /\ [][Next]_vars

(***************************************************************************)
(* find_device alone, on every host of the model.                          *)
(***************************************************************************)
InitFind ==
    /\ osName \in OsNames
    /\ available \in SUBSET CommandSet
    /\ mountTable \in MountTables
    /\ found = NotCalled
    /\ archives = PriorCatalog(0)
    /\ deviceContent = 0
    /\ srcContent = 0
    /\ now = StartClock
    /\ RunInit

CallFindDevice ==
    /\ pc = "idle"
    /\ pc' = "returned"
    /\ found' = find_device(osName, available, mountTable)
    /\ UNCHANGED <<osName, available, mountTable, worldVars, cmd, deviceGiven,
                   device, rank, calls, log, exitCode, raised>>

NextFind == CallFindDevice

SpecFind == InitFind /\ [][NextFind]_vars

(***************************************************************************)
(* Claims about find_device (specification SpecFind).                      *)
(***************************************************************************)
Returned == pc = "returned"

\* the entries of the mount table whose mount point ends with the target label
MatchingEntries ==
    {i \in 1..Len(mountTable) :
        LET mp == mountTable[i].mountPoint
        IN  Len(mp) >= Len(TARGET)
            /\ \A j \in 1..Len(TARGET) : mp[Len(mp) - Len(TARGET) + j] = TARGET[j]}

\* C6: on a posix host where a mount command lists a non-empty mount table,
\* find_device returns a path iff some entry's mount point ends with "CIRCUITPY",
\* the path returned is such a mount point, and with no such entry it returns
\* None without raising.
C6_FindDeviceIffMatch ==
    (Returned /\ osName = "posix" /\ available # {} /\ mountTable # <<>>)
    => /\ found.raised = "none"
       /\ (found.value # None) <=> (MatchingEntries # {})
       /\ found.value # None
          => \E i \in MatchingEntries : found.value = Some(mountTable[i].mountPoint)

\* a table of two entries, the second one matching, has been scanned
C6_Witness ==
    /\ Returned /\ osName = "posix" /\ available = {"/sbin/mount"}
    /\ Len(mountTable) = 2
    /\ MatchingEntries = {2}
    /\ found.value = Some(MediaDir \o TARGET)

\* C7: on a platform other than "posix" find_device raises NotImplementedError
\* "OS '<name>' not supported.", returns nothing and runs no mount command.
C7_UnsupportedPlatformRaises ==
    (Returned /\ osName # "posix")
    => /\ found.raised = "NotImplementedError"
       /\ found.message = <<"OS '", osName, "' not supported.">>
       /\ found.value = None
       /\ found.calls = <<>>

\* an unsupported platform whose mount table holds the device
C7_Witness ==
    /\ Returned /\ osName = "foo" /\ available = CommandSet
    /\ MatchingEntries # {}
    /\ found.raised = "NotImplementedError"

\* C10: the commands are tried in order, "/sbin/mount" is run when "mount" is
\* unavailable and only then, and with both unavailable the result is None.
C10_FallbackOnlyWhenUnavailable ==
    (Returned /\ osName = "posix")
    => /\ found.calls # <<>> /\ found.calls[1] = "mount"
       /\ (\E i \in 1..Len(found.calls) : found.calls[i] = "/sbin/mount")
          <=> ("mount" \notin available)
       /\ available = {} => (found.raised = "none" /\ found.value = None)

(***************************************************************************)
(* Claims about the commands (specification Spec).                         *)
(***************************************************************************)
Catalog == find_archive_files(archives)

\* the seconds at which the archives of BACKUP_DIR were written
ArchiveTimes ==
    {t \in (StartClock - MaxPrior)..(StartClock + MaxTicks) :
        ArchiveName(t) \in DOMAIN archives}

\* the archive written k-th last
KthMostRecent(k) ==
    ArchiveName(CHOOSE t \in ArchiveTimes :
                    Cardinality({u \in ArchiveTimes : u > t}) = k - 1)

Unpacks == {i \in 1..Len(calls) : calls[i][1] = "unpack_archive"}

\* restore ran its body with a valid device
RestoreRan == cmd = "restore" /\ pc = "idle" /\ device # None

\* C1: with a valid device and n >= 1 archives, restore with 1 <= rank <= n
\* extracts the archive at ascending position n - rank, which is the rank-th most
\* recent one, onto the device and exits 0; with rank > n it logs
\* "Backup not found.", exits 1 and extracts nothing.
C1_RestoreRankSelects ==
    (RestoreRan /\ Len(Catalog) >= 1)
    => LET n == Len(Catalog)
       IN  /\ (1 <= rank /\ rank <= n)
              => /\ calls = <<<<"find_archive_files">>,
                              <<"unpack_archive", Catalog[(n - rank) + 1], device[1]>>>>
                 /\ Catalog[(n - rank) + 1] = KthMostRecent(rank)
                 /\ deviceContent = archives[Catalog[(n - rank) + 1]]
                 /\ exitCode = 0
           /\ rank > n
              => /\ log = <<<<"Backup not found.">>>>
                 /\ exitCode = 1
                 /\ Unpacks = {}

\* the second-to-last of at least three archives, written before and after the
\* seconds field gains its second digit, has been restored
C1_Witness ==
    /\ RestoreRan /\ rank = 2 /\ Len(Catalog) >= 3 /\ exitCode = 0
    /\ Unpacks # {}
    /\ \E t \in ArchiveTimes : t < 10
    /\ \E t \in ArchiveTimes : t >= 10

\* C2: with a valid device and a non-empty catalog of n archives, every rank
\* outside 1..n (0, negative, greater than n) makes restore exit 1 and extract
\* nothing.
C2_OutOfRangeRankFails ==
    (RestoreRan /\ Len(Catalog) >= 1 /\ (rank < 1 \/ rank > Len(Catalog)))
    => (exitCode = 1 /\ Unpacks = {})

\* C3: with an empty catalog, restore with a valid device and any rank logs
\* "No backup found to restore.", exits 1, extracts nothing and leaves the
\* device as it was.
C3_EmptyCatalogFails ==
    [][(Fresh /\ cmd' = "restore" /\ device' # None /\ DOMAIN archives = {})
       => /\ log' = <<<<"No backup found to restore.">>>>
          /\ exitCode' = 1
          /\ calls' = <<<<"find_archive_files">>>>
          /\ deviceContent' = deviceContent
          /\ pc' = "idle"]_vars

C3_Witness ==
    /\ RestoreRan /\ DOMAIN archives = {} /\ rank = 2
    /\ exitCode = 1

MakeArchives == {i \in 1..Len(calls) : calls[i][1] = "make_archive"}

CopyTrees == {i \in 1..Len(calls) : calls[i][1] = "copy_tree"}

\* C4: a deploy with a valid device calls the backup exactly once; the archive
\* is written before the copy starts; the copy is the update-only copy of src
\* onto the device; and when the backup fails the copy is not started.
C4_DeployBacksUpOnceBeforeCopy ==
    (cmd = "deploy" /\ device # None)
    => /\ Cardinality(MakeArchives) <= 1
       /\ pc = "backup" => calls = <<>>
       /\ pc = "copy"
          => /\ calls = <<<<"make_archive", ArchiveName(now), device[1]>>>>
             /\ ArchiveName(now) \in DOMAIN archives
             /\ archives[ArchiveName(now)] = deviceContent
       /\ pc = "idle" => MakeArchives = {1}
       /\ CopyTrees # {}
          => /\ calls = <<<<"make_archive", ArchiveName(now), device[1]>>,
                          <<"copy_tree", SrcDir, device[1], "update=1">>>>
             /\ ArchiveName(now) \in DOMAIN archives
             /\ raised \in {"none", "DistutilsFileError"}
       /\ raised = "OSError" => CopyTrees = {}
       /\ exitCode = 0 => (Cardinality(CopyTrees) = 1 /\ raised = "none")

\* a deploy whose copy failed after its backup
C4_Witness ==
    /\ cmd = "deploy" /\ device # None /\ pc = "idle"
    /\ raised = "DistutilsFileError"
    /\ MakeArchives = {1} /\ CopyTrees = {2}

DeviceCommands == {"restore", "deploy", "sync"}

\* C5: a device command invoked without -d on a host where find_device returns
\* None exits 2 with the missing-option message and does nothing else: no call
\* is made (no catalog read, no backup, no copy, no extraction) and the archives,
\* the device and src are as before.
C5_MissingDeviceExits2 ==
    [][(Fresh /\ cmd' \in DeviceCommands /\ ~deviceGiven'
        /\ found'.raised = "none" /\ found'.value = None)
       => /\ exitCode' = 2
          /\ log' = <<<<"Error: Missing option '-d' / '--device'.">>>>
          /\ calls' = <<>>
          /\ pc' = "idle"
          /\ UNCHANGED worldVars]_vars

\* restore without -d, no device mounted, and an empty catalog
C5_Witness ==
    /\ cmd = "restore" /\ ~deviceGiven
    /\ found.raised = "none" /\ found.value = None /\ found.calls # <<>>
    /\ DOMAIN archives = {}
    /\ exitCode = 2

\* list ran
ListRan == cmd = "list" /\ pc = "idle"

\* C8: list prints the header and then the min(n, 5) most recent archives,
\* numbered from min(n, 5) down to 1; the entry numbered k is the k-th most
\* recent archive, the one restore selects for rank k; it exits 0.
C8_ListShowsMostRecent ==
    ListRan
    => LET n == Len(Catalog)
           m == IF n < 5 THEN n ELSE 5
       IN  /\ Len(log) = m + 1
           /\ log[1] = <<"Backups:">>
           /\ \A i \in 1..m :
                 LET k == (m - i) + 1
                 IN  /\ log[1 + i] = <<"entry", k, KthMostRecent(k)>>
                     /\ SelectArchive(Catalog, k) = Some(KthMostRecent(k))
           /\ exitCode = 0

\* more archives than list shows
C8_Witness ==
    /\ ListRan /\ Len(Catalog) >= 7 /\ Len(log) = 6
    /\ \E t \in ArchiveTimes : t >= 10

\* C9: a backup adds exactly one new archive to the catalog and leaves every
\* archive written earlier in place with its content.
C9_BackupAddsOneKeepsOthers ==
    [][(pc = "backup" /\ pc' = "copy")
       => /\ ArchiveName(now) \notin DOMAIN archives
          /\ DOMAIN archives' = DOMAIN archives \cup {ArchiveName(now)}
          /\ \A name \in DOMAIN archives : archives'[name] = archives[name]]_vars

=============================================================================
